---- MODULE Spec2Model ----
(***************************************************************************)
(* Model of lora.py: the two LoRA loader nodes XLDB_LoRA and               *)
(* S3Bucket_Load_LoRA.  A behaviour follows one node instance, of either   *)
(* class, from its construction through a series of invocations.           *)
(*                                                                         *)
(* Python strings are sequences of tokens.  A token is a piece of text     *)
(* that the code never looks inside: the markers the code searches for     *)
(* ("checkpoint", ".safetensors", "drive.google"), the path separator "/"  *)
(* and plain name pieces.  `x in s` is token membership, s.endswith(x) is  *)
(* a test of the last token, and path joining is concatenation around "/". *)
(* The empty sequence is the empty string; it also stands for Python's     *)
(* None where the code only tests truthiness or equality with a non-empty  *)
(* string (a path returned by get_full_path).                              *)
(***************************************************************************)
EXTENDS Integers, Sequences, FiniteSets, TLC

\* ---------------------------------------------------------------- bounds
\* Invocations of the node's methods in one behaviour.
MaxCalls == 3
\* Distinct decodable file contents.
NumVersions == 2

\* ---------------------------------------------------------------- strings
EmptyStr == <<>>
NoneStr == <<"None">>
NoPath == <<>>
NoBlob == <<>>
Sep == "/"

Contains(s, tok) == \E i \in DOMAIN s : s[i] = tok
EndsWith(s, tok) == Len(s) > 0 /\ s[Len(s)] = tok
IsPrefix(p, s) == Len(p) <= Len(s) /\ SubSeq(s, 1, Len(p)) = p

\* os.path.join(a, b) and Path(a) / b for the paths of this program: a second
\* argument that is absolute replaces the first
PathJoin(a, b) ==
    IF Len(b) > 0 /\ b[1] = Sep THEN b ELSE a \o <<Sep>> \o b

LastSep(p) ==
    IF Contains(p, Sep)
    THEN CHOOSE i \in DOMAIN p : p[i] = Sep /\ \A j \in DOMAIN p : p[j] = Sep => j <= i
    ELSE 0

\* Path(p).parent
PathParent(p) ==
    IF LastSep(p) = 0 THEN <<".">>
    ELSE IF LastSep(p) = 1 THEN <<Sep>>
    ELSE SubSeq(p, 1, LastSep(p) - 1)

\* the last component of a path
PathName(p) == SubSeq(p, LastSep(p) + 1, Len(p))

\* ---------------------------------------------------------------- inputs
ModelSafetensors == <<"model", ".safetensors">>
DriveUrl == <<"drive.google", Sep, "id">>
CheckpointRef == <<"checkpoint", Sep, "lora">>
CheckpointBin == <<"checkpoint", Sep, "pytorch_lora_weights.bin">>

\* the identifiers (lora_name, remote_lora_path_or_url) a caller supplies
Identifiers ==
    {EmptyStr, NoneStr, ModelSafetensors, DriveUrl, CheckpointRef, CheckpointBin}

\* the (model, clip) handles wired to the node
ModelClip == <<"model", "clip">>

\* bucket credentials: "" is the schema's default (falsy)
Creds == {"", "key1"}

\* a file's content: which version of a weight file its bytes are; content 0 is
\* bytes that no loader can decode
Versions == 1 .. NumVersions
Contents == 0 .. NumVersions
\* a download that raised, a file that is not there
Absent == 0 - 1

\* uuid.uuid4(): a token never seen before; one is consumed per generation
UuidTokens == <<"uuid1", "uuid2", "uuid3", "uuid4", "uuid5", "uuid6">>
UuidSet == {UuidTokens[i] : i \in DOMAIN UuidTokens}

\* ---------------------------------------------------------------- file system
LocalDir == <<Sep, "models", Sep, "loras">>
StagingDir == <<Sep, "tmp", Sep, "loras">>

\* the files the user keeps or drops in the local loras directory
LocalNames == {ModelSafetensors, CheckpointRef, CheckpointBin}

InDir(dir, p) == IsPrefix(dir \o <<Sep>>, p)
IsFile(fs, p) == p \in DOMAIN fs

\* shutil.rmtree(dir): every file below dir is gone
RmTreeKeep(fs, dir) == fs
RmTree(fs, dir) ==
    [p \in {q \in DOMAIN fs : ~InDir(dir, q)} |-> fs[p]]

WriteFile(fs, p, c) ==
    [q \in DOMAIN fs \cup {p} |-> IF q = p THEN c ELSE fs[q]]

RemoveFile(fs, p) == [q \in DOMAIN fs \ {p} |-> fs[q]]

StagedFiles(fs) == {p \in DOMAIN fs : InDir(StagingDir, p)}

\* folder_paths.add_model_folder_path("loras", dir)
AddFolder(flds, dir) ==
    IF \E i \in DOMAIN flds : flds[i] = dir THEN flds ELSE Append(flds, dir)

\* folder_paths.get_full_path("loras", name): the first registered folder that
\* holds a file of that name, else None.  An empty name names the folder itself,
\* which is not a file.
GetFullPath(flds, fs, name) ==
    LET hits == {i \in DOMAIN flds : name # EmptyStr /\ IsFile(fs, PathJoin(flds[i], name))}
    IN IF hits = {} THEN NoPath
       ELSE PathJoin(flds[CHOOSE i \in hits : \A j \in hits : i <= j], name)

\* ---------------------------------------------------------------- loaders
\* decoded weight data for file content c: a state dict, never None, so the
\* test `lora is None` (lines 104, 248) is true exactly on a cache miss
Decode(c) == <<"weights", c>>

\* the file a loader opens for lora_path
CheckpointSibling(lora_path) ==
    PathJoin(PathParent(lora_path), <<"pytorch_lora_weights.bin">>)

IsCheckpointPath(lora_path) == lora_path # NoPath /\ Contains(lora_path, "checkpoint")

LoaderPathSelf(lora_path) == lora_path
LoaderPath(lora_path) ==
    IF IsCheckpointPath(lora_path) THEN CheckpointSibling(lora_path) ELSE lora_path

LoaderName(lora_path) ==
    IF IsCheckpointPath(lora_path) THEN "load_checkpoint_lora" ELSE "load_torch_file"

\* a loader succeeds when the file exists and its bytes decode
CanLoad(fs, lora_path) ==
    /\ LoaderPath(lora_path) # NoPath
    /\ IsFile(fs, LoaderPath(lora_path))
    /\ fs[LoaderPath(lora_path)] \in Versions

Loaded(fs, lora_path) == Decode(fs[LoaderPath(lora_path)])

\* comfy.sd.load_lora_for_models(model, clip, lora, ...)
Merge(mc, lora) == <<"patched", mc, lora>>

\* ---------------------------------------------------------------- cache
\* loaded_lora is None (<<>>) or the pair (path, blob)
CacheHitWrongIndex(loaded, path) == loaded # <<>> /\ loaded[2] = path
CacheHitAny(loaded, path) == loaded # <<>>
\* lines 98-99, 239-240: an entry is cached and its key is the path
CacheHit(loaded, path) == loaded # <<>> /\ loaded[1] = path

\* ---------------------------------------------------------------- resolver
IsVerbatimSuffixOnly(lora_name) == EndsWith(lora_name, ".safetensors")
IsVerbatim(lora_name) ==
    EndsWith(lora_name, ".safetensors") \/ Contains(lora_name, "checkpoint")

IsMemoizedNever(map, lora_name) == FALSE
IsMemoized(map, lora_name) == lora_name \in DOMAIN map

\* get_local_lora_name: the map after the call, the number of uuids generated
\* so far, and the name returned
ResolveName(map, n, lora_name) ==
    IF IsMemoized(map, lora_name)
    THEN [map |-> map, n |-> n, name |-> map[lora_name]]
    ELSE LET new == IF IsVerbatim(lora_name) THEN lora_name
                    ELSE <<UuidTokens[n + 1], ".safetensors">>
             m2 == [r \in DOMAIN map \cup {lora_name} |->
                      IF r = lora_name THEN new ELSE map[r]]
         IN [map |-> m2,
             n |-> IF IsVerbatim(lora_name) THEN n ELSE n + 1,
             name |-> m2[lora_name]]

\* ---------------------------------------------------------------- download
\* s3_utils.download_file_from_s3_bucket / download_file_from_url: the bytes of
\* the remote object land at download_path, which is returned
DownloadWrites(fs, download_path, c) == WriteFile(fs, download_path, c)
DownloadReturns(download_path) == download_path

\* "drive.google" in lora_url_or_path
Backend(lora_url_or_path) ==
    IF Contains(lora_url_or_path, "drive.google")
    THEN "download_file_from_url" ELSE "download_file_from_s3_bucket"

\* ---------------------------------------------------------------- state
VARIABLES
    instance,        \* the class of the node instance: "XLDB" or "S3"
    given,           \* the (model, clip) pair wired to the node's inputs
    bucket_creds,    \* the credential wired to the node's optional inputs
    files,           \* the file system: path -> content, for the files that exist
    folders,         \* folder_paths' search list for "loras"
    environ,         \* os.environ, the bucket credential last written
    has_loaded_lora, \* the instance attribute loaded_lora exists
    loaded_lora,     \* self.loaded_lora
    lora_name_map,   \* self.lora_name_map (S3Bucket_Load_LoRA)
    uuid_count,      \* uuids generated so far
    calls,           \* method invocations so far
    last,            \* what the most recent invocation did and returned
    last_fetch,      \* the most recent fetch attempt
    evicted          \* the key most recently replaced in loaded_lora

vars == <<instance, given, bucket_creds, files, folders, environ, has_loaded_lora,
          loaded_lora, lora_name_map, uuid_count, calls, last, last_fetch, evicted>>

NoCall ==
    [method |-> "none", ident |-> EmptyStr, seq |-> 0,
     path |-> NoPath, name |-> EmptyStr, memoized |-> FALSE,
     reset |-> FALSE, backend |-> "none",
     wrote |-> Absent, cache_read |-> FALSE, cache_write |-> FALSE,
     key_before |-> NoPath, evicted_before |-> NoPath,
     loader |-> "none", read_path |-> NoPath,
     merged |-> NoBlob, result |-> "none", output |-> <<>>]

NoFetch ==
    [ok |-> FALSE, ref |-> EmptyStr, path |-> NoPath, content |-> Absent,
     replaced |-> {}]

KeyOf(loaded) == IF loaded = <<>> THEN NoPath ELSE loaded[1]

\* The XLDB node lists the files of the local directory, which holds LocalNames;
\* the S3 node starts on a host whose local directory holds none of them.
InitialDisk(class) ==
    IF class = "XLDB"
    THEN [p \in {PathJoin(LocalDir, n) : n \in LocalNames} |-> 1]
    ELSE [p \in {} |-> 1]

\* __init__ of either class (lines 42-43, 128-130)
Init ==
    /\ instance \in {"XLDB", "S3"}
    /\ given = ModelClip
    /\ bucket_creds \in (IF instance = "S3" THEN Creds ELSE {""})
    /\ files = InitialDisk(instance)
    /\ folders = <<LocalDir>>
    /\ environ = ""
    /\ has_loaded_lora = TRUE
    /\ loaded_lora = <<>>
    /\ lora_name_map = [r \in {} |-> EmptyStr]
    /\ uuid_count = 0
    /\ calls = 0
    /\ last = NoCall
    /\ last_fetch = NoFetch
    /\ evicted = NoPath

Wiring == <<instance, given, bucket_creds>>

\* ---------------------------------------------------------------- XLDB_LoRA
\* XLDB_LoRA.load_lora(model, clip, lora_name)
XLDB_load_lora(lora_name) ==
    /\ instance = "XLDB"
    /\ calls < MaxCalls
    /\ calls' = calls + 1
    /\ LET lora_path == GetFullPath(folders, files, lora_name)
           hit == CacheHit(loaded_lora, lora_path)
           deleted == loaded_lora # <<>> /\ ~hit
           call == [NoCall EXCEPT !.method = "XLDB.load_lora", !.ident = lora_name,
                                  !.seq = calls + 1]
           looked == [call EXCEPT !.path = lora_path, !.cache_read = TRUE,
                                  !.key_before = KeyOf(loaded_lora),
                                  !.evicted_before = evicted]
       IN IF lora_name = NoneStr
          THEN \* line 93: return model, clip
               /\ last' = [call EXCEPT !.result = "returned_input", !.output = given]
               /\ UNCHANGED <<has_loaded_lora, loaded_lora, evicted>>
          ELSE IF ~has_loaded_lora
          THEN \* line 98: the attribute was deleted by an earlier invocation
               /\ last' = [call EXCEPT !.path = lora_path, !.cache_read = TRUE,
                                       !.result = "AttributeError"]
               /\ UNCHANGED <<has_loaded_lora, loaded_lora, evicted>>
          ELSE IF hit
          THEN \* line 100: the cached blob is merged
               /\ last' = [looked EXCEPT !.merged = loaded_lora[2],
                                         !.result = "merged",
                                         !.output = Merge(given, loaded_lora[2])]
               /\ UNCHANGED <<has_loaded_lora, loaded_lora, evicted>>
          ELSE IF CanLoad(files, lora_path)
          THEN \* lines 104-111: the loader ran and its result is stored
               /\ has_loaded_lora' = TRUE
               /\ loaded_lora' = <<lora_path, Loaded(files, lora_path)>>
               /\ evicted' = IF deleted THEN KeyOf(loaded_lora) ELSE evicted
               /\ last' = [looked EXCEPT !.loader = LoaderName(lora_path),
                                         !.read_path = LoaderPath(lora_path),
                                         !.cache_write = TRUE,
                                         !.merged = Loaded(files, lora_path),
                                         !.result = "merged",
                                         !.output = Merge(given, Loaded(files, lora_path))]
          ELSE \* the loader raised; line 102 may have deleted the attribute
               /\ has_loaded_lora' = ~deleted
               /\ loaded_lora' = IF deleted THEN <<>> ELSE loaded_lora
               /\ evicted' = IF deleted THEN KeyOf(loaded_lora) ELSE evicted
               /\ last' = [looked EXCEPT !.loader = LoaderName(lora_path),
                                         !.read_path = LoaderPath(lora_path),
                                         !.cache_write = deleted,
                                         !.result = "DecodeFailure"]
    /\ UNCHANGED <<Wiring, files, folders, environ, lora_name_map, uuid_count, last_fetch>>

\* ---------------------------------------------------------------- S3Bucket_Load_LoRA
\* S3Bucket_Load_LoRA.get_local_lora_name(lora_name), called by itself
S3_get_local_lora_name(lora_name) ==
    /\ instance = "S3"
    /\ calls < MaxCalls
    /\ calls' = calls + 1
    /\ LET res == ResolveName(lora_name_map, uuid_count, lora_name)
       IN /\ lora_name_map' = res.map
          /\ uuid_count' = res.n
          /\ last' = [NoCall EXCEPT !.method = "S3.get_local_lora_name",
                                    !.ident = lora_name, !.seq = calls + 1,
                                    !.name = res.name,
                                    !.memoized = IsMemoized(lora_name_map, lora_name),
                                    !.result = "name"]
    /\ UNCHANGED <<Wiring, files, folders, environ, has_loaded_lora, loaded_lora,
                   last_fetch, evicted>>

\* whether load_lora reaches the download for ref (lines 209-214)
Fetches(ref) ==
    /\ ref # NoneStr
    /\ ref # EmptyStr
    /\ GetFullPath(folders, files, ref) = NoPath

\* S3Bucket_Load_LoRA.load_lora(model, clip, remote_lora_path_or_url, ...,
\* **bucket_creds); dl is what the download backend does if it is called: the
\* content it writes, or Absent when it raises
S3_load_lora(ref, dl) ==
    /\ instance = "S3"
    /\ calls < MaxCalls
    /\ calls' = calls + 1
    /\ environ' = IF bucket_creds # "" THEN bucket_creds ELSE environ
    /\ LET found == GetFullPath(folders, files, ref)
           fetch == found = NoPath
           res == ResolveName(lora_name_map, uuid_count, ref)
           target == PathJoin(StagingDir, res.name)
           reset == RmTree(files, StagingDir)
           path == IF fetch THEN DownloadReturns(target) ELSE found
           disk == IF fetch THEN DownloadWrites(reset, target, dl) ELSE files
           hit == CacheHit(loaded_lora, path)
           replaced == loaded_lora # <<>> /\ ~hit
           call == [NoCall EXCEPT !.method = "S3.load_lora", !.ident = ref,
                                  !.seq = calls + 1]
           fetched == IF fetch
                      THEN [call EXCEPT !.reset = TRUE, !.name = res.name,
                                        !.memoized = IsMemoized(lora_name_map, ref),
                                        !.backend = Backend(ref), !.wrote = dl]
                      ELSE call
           looked == [fetched EXCEPT !.path = path, !.cache_read = TRUE,
                                     !.key_before = KeyOf(loaded_lora),
                                     !.evicted_before = evicted]
       IN IF ref = NoneStr \/ ref = EmptyStr
          THEN \* line 209: return model, clip
               /\ last' = [call EXCEPT !.result = "returned_input", !.output = given]
               /\ UNCHANGED <<files, folders, loaded_lora, lora_name_map, uuid_count,
                              last_fetch, evicted>>
          ELSE IF fetch /\ dl = Absent
          THEN \* lines 214-237, the backend raised
               /\ files' = reset
               /\ folders' = AddFolder(folders, StagingDir)
               /\ lora_name_map' = res.map
               /\ uuid_count' = res.n
               /\ last_fetch' = [NoFetch EXCEPT !.replaced = StagedFiles(files)]
               /\ last' = [fetched EXCEPT !.result = "DownloadFailure"]
               /\ UNCHANGED <<loaded_lora, evicted>>
          ELSE /\ files' = disk
               /\ folders' = IF fetch THEN AddFolder(folders, StagingDir) ELSE folders
               /\ lora_name_map' = IF fetch THEN res.map ELSE lora_name_map
               /\ uuid_count' = IF fetch THEN res.n ELSE uuid_count
               /\ last_fetch' = IF fetch
                                THEN [ok |-> TRUE, ref |-> ref, path |-> target,
                                      content |-> dl,
                                      replaced |-> StagedFiles(files)]
                                ELSE last_fetch
               /\ evicted' = IF replaced THEN KeyOf(loaded_lora) ELSE evicted
               /\ IF hit
                  THEN \* line 241: the cached blob is merged
                       /\ last' = [looked EXCEPT !.merged = loaded_lora[2],
                                                 !.result = "merged",
                                                 !.output = Merge(given, loaded_lora[2])]
                       /\ loaded_lora' = loaded_lora
                  ELSE IF CanLoad(disk, path)
                  THEN \* lines 248-255: the loader ran and its result is stored
                       /\ loaded_lora' = <<path, Loaded(disk, path)>>
                       /\ last' = [looked EXCEPT !.loader = LoaderName(path),
                                                 !.read_path = LoaderPath(path),
                                                 !.cache_write = TRUE,
                                                 !.merged = Loaded(disk, path),
                                                 !.result = "merged",
                                                 !.output = Merge(given, Loaded(disk, path))]
                  ELSE \* the loader raised after line 243 emptied the slot
                       /\ loaded_lora' = <<>>
                       /\ last' = [looked EXCEPT !.loader = LoaderName(path),
                                                 !.read_path = LoaderPath(path),
                                                 !.cache_write = replaced,
                                                 !.result = "DecodeFailure"]
    /\ UNCHANGED <<Wiring, has_loaded_lora>>

\* ---------------------------------------------------------------- the user
\* The files a change of which can matter to the node's cached entry: the file
\* its key names and the file its loader read, when they lie in the local
\* directory.
CachedFiles ==
    {p \in {KeyOf(loaded_lora), LoaderPath(KeyOf(loaded_lora))} : InDir(LocalDir, p)}

\* between invocations the user replaces or removes such a file
DiskChange(p, c) ==
    /\ p \in CachedFiles
    /\ files' = IF c = Absent THEN RemoveFile(files, p) ELSE WriteFile(files, p, c)
    /\ files' # files
    /\ UNCHANGED <<Wiring, folders, environ, has_loaded_lora, loaded_lora,
                   lora_name_map, uuid_count, calls, last, last_fetch, evicted>>

CallXLDB == \E n \in Identifiers : XLDB_load_lora(n)
CallResolver == \E n \in Identifiers : S3_get_local_lora_name(n)
CallS3 ==
    \E r \in Identifiers :
       \E dl \in (IF Fetches(r) THEN Contents \cup {Absent} ELSE {Absent}) :
          S3_load_lora(r, dl)
UserChange ==
    \E p \in CachedFiles, c \in Contents \cup {Absent} : DiskChange(p, c)

Next == CallXLDB \/ CallResolver \/ CallS3 \/ UserChange

Spec == Init /\ [][Next]_vars

\* ================================================================ claims
LoadMethods == {"XLDB.load_lora", "S3.load_lora"}
BinName == <<"pytorch_lora_weights.bin">>

\* C1: with the identifier "" or "None", load_lora of either class returns the
\* (model, clip) pair it was given and does nothing else: no staging reset, no
\* download, no read or write of loaded_lora, no loader, no merge.
C1_SentinelReturnsInput ==
    (last.method \in LoadMethods /\ last.ident \in {EmptyStr, NoneStr}) =>
        /\ last.result = "returned_input"
        /\ last.output = given
        /\ ~last.reset
        /\ last.backend = "none"
        /\ ~last.cache_read
        /\ ~last.cache_write
        /\ last.loader = "none"
        /\ last.merged = NoBlob

\* C2: when loaded_lora holds (A, blob) and an invocation resolves to A, the
\* invocation merges that blob, runs no loader and leaves the slot as it was,
\* whatever the files hold by then; and a loader that succeeded for A has left
\* (A, its blob) in the slot.
C2_CacheHitSkipsLoader ==
    [][ /\ ( /\ last'.seq # last.seq
             /\ last'.method \in LoadMethods
             /\ last'.cache_read
             /\ has_loaded_lora
             /\ loaded_lora # <<>>
             /\ last'.path = loaded_lora[1] )
           => /\ last'.loader = "none"
              /\ last'.read_path = NoPath
              /\ last'.merged = loaded_lora[2]
              /\ last'.output = Merge(given, loaded_lora[2])
              /\ loaded_lora' = loaded_lora
        /\ ( /\ last'.seq # last.seq
             /\ last'.loader # "none"
             /\ last'.result = "merged" )
           => loaded_lora' = <<last'.path, last'.merged>>
      ]_vars

\* C2 witness: a cache hit merged a blob that the file it was read from no
\* longer decodes to.
C2_Witness ==
    /\ last.method \in LoadMethods
    /\ last.result = "merged"
    /\ last.loader = "none"
    /\ loaded_lora = <<last.path, last.merged>>
    /\ \/ ~IsFile(files, LoaderPath(last.path))
       \/ Decode(files[LoaderPath(last.path)]) # last.merged

\* C3: loaded_lora holds at most one (path, blob) pair; a loader that succeeds
\* for path B leaves exactly (B, blob decoded from the file read); an invocation
\* that resolves to a path other than the cached key runs a loader and does not
\* keep the old entry.
C3_SingleSlotReplaceOnMiss ==
    [][ /\ (loaded_lora' = <<>> \/ Len(loaded_lora') = 2)
        /\ ( /\ last'.seq # last.seq
             /\ last'.loader # "none"
             /\ last'.result = "merged" )
           => /\ IsFile(files', last'.read_path)
              /\ loaded_lora' = <<last'.path, Decode(files'[last'.read_path])>>
        /\ ( /\ last'.seq # last.seq
             /\ last'.method \in LoadMethods
             /\ last'.cache_read
             /\ has_loaded_lora
             /\ loaded_lora # <<>>
             /\ last'.path # loaded_lora[1] )
           => /\ last'.loader # "none"
              /\ (loaded_lora' = <<>> \/ loaded_lora'[1] = last'.path)
      ]_vars

\* C3 witness: A was loaded, B replaced it, and the invocation for A that
\* followed missed, ran the loader and left (A, blob of A).
C3_Witness ==
    /\ last.loader # "none"
    /\ last.result = "merged"
    /\ last.key_before # NoPath
    /\ last.key_before # last.path
    /\ last.evicted_before = last.path
    /\ loaded_lora = <<last.path, last.merged>>

\* C4: once a remote ref has been fetched successfully and no other fetch has
\* happened since, S3Bucket_Load_LoRA.load_lora with that ref neither resets the
\* staging directory nor calls a download backend.
C4_NoRedundantDownload ==
    [][ ( /\ last'.seq # last.seq
          /\ last'.method = "S3.load_lora"
          /\ last_fetch.ok
          /\ last'.ident = last_fetch.ref )
        => (~last'.reset /\ last'.backend = "none")
      ]_vars

\* C5: entries of lora_name_map are never changed or removed, and a call for a
\* ref already in the map returns the entry.
C5_NameMapIsStable ==
    [][ /\ \A r \in DOMAIN lora_name_map :
              r \in DOMAIN lora_name_map' /\ lora_name_map'[r] = lora_name_map[r]
        /\ ( /\ last'.seq # last.seq
             /\ (last'.method = "S3.get_local_lora_name" \/ last'.reset)
             /\ last'.ident \in DOMAIN lora_name_map )
           => last'.name = lora_name_map[last'.ident]
      ]_vars

\* C5 witness: a repeated call for a ref that had been given a generated name
\* returned that name again.
C5_Witness ==
    /\ last.memoized
    /\ last.ident \in DOMAIN lora_name_map
    /\ last.name = lora_name_map[last.ident]
    /\ last.name # last.ident
    /\ Cardinality(DOMAIN lora_name_map) >= 2

\* C6: the staging directory holds at most the file written by the most recent
\* fetch.
C6_StagingHoldsLastFetchOnly ==
    \A p \in StagedFiles(files) :
        /\ last_fetch.ok
        /\ p = last_fetch.path
        /\ files[p] = last_fetch.content

\* C6 witness: a fetch found another fetch's file staged, and only its own file
\* is staged now.
C6_Witness ==
    /\ last_fetch.ok
    /\ last_fetch.replaced # {}
    /\ last_fetch.path \notin last_fetch.replaced
    /\ StagedFiles(files) = {last_fetch.path}

\* C7, as claimed: on a miss a local path containing "checkpoint" is loaded from
\* pytorch_lora_weights.bin in its parent directory and never from the path
\* itself, any other path from the path itself; the key stored is the path.
C7_CheckpointNeverReadsPathItself ==
    (last.loader # "none") =>
        /\ Contains(last.path, "checkpoint") =>
              /\ last.loader = "load_checkpoint_lora"
              /\ last.read_path = PathParent(last.path) \o <<Sep>> \o BinName
              /\ last.read_path # last.path
        /\ ~Contains(last.path, "checkpoint") =>
              /\ last.loader = "load_torch_file"
              /\ last.read_path = last.path
        /\ last.result = "merged" => loaded_lora[1] = last.path

\* C7, amended: the file read for a path containing "checkpoint" is
\* pytorch_lora_weights.bin in its parent directory, which is another file than
\* the path exactly when the path's own file name is not pytorch_lora_weights.bin.
C7_CheckpointReadsSiblingFile ==
    (last.loader # "none") =>
        /\ Contains(last.path, "checkpoint") =>
              /\ last.loader = "load_checkpoint_lora"
              /\ last.read_path = PathParent(last.path) \o <<Sep>> \o BinName
              /\ (last.read_path # last.path) <=> (PathName(last.path) # BinName)
        /\ ~Contains(last.path, "checkpoint") =>
              /\ last.loader = "load_torch_file"
              /\ last.read_path = last.path
        /\ last.result = "merged" => loaded_lora[1] = last.path
        /\ (last.reset /\ Contains(last.ident, "checkpoint")) =>
              last.read_path = PathParent(last.path) \o <<Sep>> \o BinName

\* C7 witness: a checkpoint path was loaded from its sibling file and stored
\* under the path.
C7_Witness ==
    /\ last.loader = "load_checkpoint_lora"
    /\ last.result = "merged"
    /\ last.read_path # last.path
    /\ loaded_lora = <<last.path, Decode(files[last.read_path])>>

\* C8: the first get_local_lora_name call for a ref returns the ref itself when
\* it ends with ".safetensors" or contains "checkpoint", and otherwise a token no
\* entry uses followed by ".safetensors"; no two refs share a local name.
C8_NamingPolicy ==
    [][ /\ ( /\ last'.seq # last.seq
             /\ (last'.method = "S3.get_local_lora_name" \/ last'.reset)
             /\ last'.ident \notin DOMAIN lora_name_map )
           => /\ lora_name_map'[last'.ident] = last'.name
              /\ IF \/ EndsWith(last'.ident, ".safetensors")
                    \/ Contains(last'.ident, "checkpoint")
                 THEN last'.name = last'.ident
                 ELSE /\ Len(last'.name) = 2
                      /\ last'.name[1] \in UuidSet
                      /\ last'.name[2] = ".safetensors"
                      /\ \A r \in DOMAIN lora_name_map :
                            lora_name_map[r] # last'.name
        /\ \A r1, r2 \in DOMAIN lora_name_map' :
              r1 # r2 => lora_name_map'[r1] # lora_name_map'[r2]
      ]_vars

\* C8 witness: "model.safetensors" and a checkpoint ref resolved to themselves
\* and two other refs to two generated names.
C8_Witness ==
    /\ ModelSafetensors \in DOMAIN lora_name_map
    /\ lora_name_map[ModelSafetensors] = ModelSafetensors
    /\ \E r1, r2 \in DOMAIN lora_name_map :
          /\ r1 # r2
          /\ lora_name_map[r1] # r1
          /\ lora_name_map[r2] # r2
          /\ lora_name_map[r1] # lora_name_map[r2]

\* C9: when S3Bucket_Load_LoRA.load_lora fetches a decodable file and completes,
\* the blob it merges is the one decoded from the file that fetch wrote.
C9_FetchedBlobIsMerged ==
    ( /\ last.method = "S3.load_lora"
      /\ last.reset
      /\ last.wrote \in Versions
      /\ last.result = "merged" )
    => last.merged = Decode(last.wrote)

\* C10: an invocation, whether or not its loader raises, leaves the loaded_lora
\* attribute in place, empty or holding one (path, blob) pair, and does not fail
\* on the node's own state.
C10_SlotSurvivesFailedLoad ==
    [][ ( /\ last'.seq # last.seq
          /\ last'.method \in LoadMethods
          /\ last'.ident \notin {EmptyStr, NoneStr} )
        => /\ has_loaded_lora'
           /\ last'.result # "AttributeError"
           /\ (loaded_lora' = <<>> \/ Len(loaded_lora') = 2)
      ]_vars

====
